---- MODULE Spec2Model ----
(***************************************************************************)
(* Air Quality Checker (src/app.py): one Streamlit script that, on a form  *)
(* submission, validates the input, geocodes the city, fetches the air     *)
(* quality for the coordinates and renders the result.  Both fetch         *)
(* functions are memoized by st.cache_data with a time-to-live.            *)
(*                                                                         *)
(* Conventions of the model:                                               *)
(*   - text the user types is a sequence of one-character strings;         *)
(*   - a coordinate is an integer number of micro-degrees (1e-6 degree),   *)
(*     a concentration an integer number of 1e-3 ug/m3;                    *)
(*   - a Python value is a record tagged by its type in field t;           *)
(*   - a non-ASCII character of a literal is written by its code point,    *)
(*     "U+2705" for the check-mark emoji.                                  *)
(***************************************************************************)
EXTENDS Integers, Sequences, FiniteSets, TLC

VARIABLES
    API_KEY,      \* the credential read from the secrets at start-up
    phase,        \* where the controller is in the submission lifecycle
    city_input,   \* the text of the form's input box
    coords,       \* the handler's local: result of geocode_city
    aq,           \* the handler's local: result of fetch_air_quality
    now,          \* the clock, in seconds
    geo_cache,    \* st.cache_data store of geocode_city
    aq_cache,     \* st.cache_data store of fetch_air_quality
    calls,        \* client invocations of the current submission
    sent,         \* outbound HTTP requests of the current submission
    ui,           \* elements rendered by the current submission
    geo_fetched,  \* history: per query, the last provider answer returned
    aq_fetched    \* history: per coordinates, the last provider answer returned

vars == <<API_KEY, phase, city_input, coords, aq, now, geo_cache, aq_cache,
          calls, sent, ui, geo_fetched, aq_fetched>>

(***************************************************************************)
(* Bounds of the model and constants of the program.                       *)
(***************************************************************************)
TickSeconds == 200
MaxTime == 600

GEO_TTL == 600
AQ_TTL == 300

\* The advisory lookups are exercised on aqi in -AqiSpan..AqiSpan and null.
AqiSpan == 25

(***************************************************************************)
(* Python values.                                                          *)
(***************************************************************************)
None == [t |-> "None"]
Tuple(a, b) == [t |-> "tuple", lat |-> a, lon |-> b]
JInt(n) == [t |-> "int", v |-> n]
JNull == [t |-> "null"]
JArray(s) == [t |-> "array", v |-> s]
JObject(r) == [t |-> "object", v |-> r]

\* Python truthiness of the values the script tests with `not`.
Truthy(x) ==
    CASE x.t = "None" -> FALSE
      [] x.t = "array" -> Len(x.v) > 0
      [] x.t = "object" -> DOMAIN x.v # {}
      [] OTHER -> TRUE

Returned(v) == [raised |-> FALSE, value |-> v]
Raised == [raised |-> TRUE, value |-> None]

(***************************************************************************)
(* str.strip(): leading and trailing whitespace removed.                   *)
(***************************************************************************)
IsSpace(c) == c \in {" ", "\t", "\n"}

RECURSIVE lstrip(_)
lstrip(s) == IF s # <<>> /\ IsSpace(Head(s)) THEN lstrip(Tail(s)) ELSE s

RECURSIVE rstrip(_)
rstrip(s) ==
    IF s # <<>> /\ IsSpace(s[Len(s)]) THEN rstrip(SubSeq(s, 1, Len(s) - 1)) ELSE s

strip(s) == rstrip(lstrip(s))

(***************************************************************************)
(* What the user may type.                                                 *)
(***************************************************************************)
Taipei == <<"T", "a", "i", "p", "e", "i">>
Qwxyzzy == <<"Q", "w", "x", "y", "z", "z", "y">>
CityInputs ==
    { <<>>, <<" ", " ">>, Taipei, <<" ">> \o Taipei \o <<" ">>, Qwxyzzy }

(***************************************************************************)
(* What the provider may answer.  A request either fails in transport      *)
(* (requests.get raises Timeout or ConnectionError) or yields a JSON body. *)
(***************************************************************************)
TransportFailure == [kind |-> "raise"]
Json(body) == [kind |-> "json", body |-> body]

GeoBodies ==
    { JArray(<<>>),
      JArray(<<[lat |-> 25037519, lon |-> 121563679]>>),
      JArray(<<[lat |-> 48858894, lon |-> 2320041]>>),
      JArray(<<[name |-> "Taipei"]>>),
      JObject([cod |-> 401]) }
GeoResponses == {TransportFailure} \cup {Json(b) : b \in GeoBodies}

Components == << <<"pm2_5", 15204>>, <<"o3", 40100>> >>
AqiValues == {JInt(2), JInt(6)}
AqBodies ==
    { JObject([cod |-> 401]),
      JObject([list |-> <<>>]),
      JObject([list |-> <<[components |-> Components]>>]),
      JObject([list |-> <<[main |-> <<>>, components |-> Components]>>]),
      JObject([list |-> <<[main |-> [aqi |-> JInt(2)]]>>]) }
    \cup { JObject([list |-> <<[main |-> [aqi |-> a], components |-> Components,
                                dt |-> 1755945555]>>]) : a \in AqiValues }
AqResponses == {TransportFailure} \cup {Json(b) : b \in AqBodies}

(***************************************************************************)
(* geocode_city: the function body, applied to the provider's answer.      *)
(***************************************************************************)
geocode_city(resp) ==
    IF resp.kind = "raise" THEN Raised
    ELSE LET res == resp.body IN
         IF ~Truthy(res) THEN Returned(None)
         ELSE IF res.t # "array" THEN Raised
         ELSE IF {"lat", "lon"} \subseteq DOMAIN res.v[1]
              THEN Returned(Tuple(res.v[1].lat, res.v[1].lon))
              ELSE Raised

(***************************************************************************)
(* fetch_air_quality: the function body, applied to the provider's answer. *)
(***************************************************************************)
fetch_air_quality(resp) ==
    IF resp.kind = "raise" THEN Raised
    ELSE LET res == resp.body IN
         IF res.t # "object" \/ "list" \notin DOMAIN res.v THEN Returned(None)
         ELSE IF res.v.list = <<>> THEN Returned(None)
         ELSE LET item == res.v.list[1] IN
              IF "main" \notin DOMAIN item THEN Raised
              ELSE IF "aqi" \notin DOMAIN item.main THEN Raised
              ELSE IF "components" \notin DOMAIN item THEN Raised
              ELSE Returned([t |-> "dict",
                             aqi |-> item.main.aqi,
                             components |-> item.components,
                             dt |-> IF "dt" \in DOMAIN item
                                    THEN JInt(item.dt) ELSE None])

(***************************************************************************)
(* st.cache_data(ttl=...): a store of entries [key, value, at], at most    *)
(* one per key.  An entry is served while it is younger than ttl; a        *)
(* returned value (None included) is stored, an exception is not.          *)
(***************************************************************************)
\* Faulty variants: memoization switched off; an entry that never expires.
cache_hit_off(cache, key, ttl, t) == FALSE

cache_hit_no_ttl(cache, key, ttl, t) ==
    \E e \in cache : e.key = key

cache_hit(cache, key, ttl, t) ==
    \E e \in cache : e.key = key /\ t - e.at < ttl

cache_get(cache, key) == (CHOOSE e \in cache : e.key = key).value

cache_store(cache, key, value, t) ==
    {e \in cache : e.key # key} \cup {[key |-> key, value |-> value, at |-> t]}

\* Faulty variant: a None result is not kept.
cached_skip_none(cache, key, ttl, t, r) ==
    IF cache_hit(cache, key, ttl, t)
    THEN [outbound |-> FALSE,
          result |-> Returned(cache_get(cache, key)),
          cache |-> cache]
    ELSE [outbound |-> TRUE,
          result |-> r,
          cache |-> IF r.raised \/ r.value = None
                    THEN cache ELSE cache_store(cache, key, r.value, t)]

\* A call of a memoized function at time t, where r is what the function
\* body would produce if it ran now.
cached(cache, key, ttl, t, r) ==
    IF cache_hit(cache, key, ttl, t)
    THEN [outbound |-> FALSE,
          result |-> Returned(cache_get(cache, key)),
          cache |-> cache]
    ELSE [outbound |-> TRUE,
          result |-> r,
          cache |-> IF r.raised THEN cache ELSE cache_store(cache, key, r.value, t)]

\* The history of provider answers, kept beside the caches.
record_fetch(log, key, value, t) ==
    {e \in log : e.key # key} \cup {[key |-> key, value |-> value, at |-> t]}

(***************************************************************************)
(* Advisory tables and their lookups with a default (dict.get).            *)
(***************************************************************************)
AQI_TEXT ==
    [n \in 1..5 |->
        CASE n = 1 -> "Good"
          [] n = 2 -> "Fair"
          [] n = 3 -> "Moderate"
          [] n = 4 -> "Poor"
          [] n = 5 -> "Very Poor"]

HEALTH_ADVICE ==
    [n \in 1..5 |->
        CASE n = 1 -> "U+2705 Air quality is good. Great for outdoor activities."
          [] n = 2 -> "U+1F642 Acceptable air quality. Minor precautions for sensitive groups."
          [] n = 3 -> "U+26A0 U+FE0F Moderate pollution. Consider reducing outdoor exertion."
          [] n = 4 -> "U+1F6AB Unhealthy. Avoid outdoor activities and wear a mask."
          [] n = 5 -> "U+2757 Very unhealthy. Stay indoors with air purification if possible."]

AQI_TEXT_get(aqi) ==
    IF aqi.t = "int" /\ aqi.v \in DOMAIN AQI_TEXT THEN AQI_TEXT[aqi.v] ELSE "Unknown"

\* Faulty variant: the advice looked up in the label table.
HEALTH_ADVICE_get_labels(aqi) ==
    IF aqi.t = "int" /\ aqi.v \in DOMAIN AQI_TEXT
    THEN AQI_TEXT[aqi.v]
    ELSE "No advice available."

HEALTH_ADVICE_get(aqi) ==
    IF aqi.t = "int" /\ aqi.v \in DOMAIN HEALTH_ADVICE
    THEN HEALTH_ADVICE[aqi.v]
    ELSE "No advice available."

(***************************************************************************)
(* Number formatting: x in units of 1/(10*d) printed in units of 1/d,      *)
(* rounded to nearest, ties to even -- f"{lat:.5f}" and f"{v:.2f}".        *)
(***************************************************************************)
round_div10(x) ==
    LET q == x \div 10
        r == x % 10
    IN  IF r > 5 \/ (r = 5 /\ q % 2 = 1) THEN q + 1 ELSE q

fmt5(x) == round_div10(x)
fmt2(x) == round_div10(x)

upper(k) ==
    CASE k = "pm2_5" -> "PM2_5"
      [] k = "o3" -> "O3"
      [] OTHER -> k

table_data(components) ==
    [i \in 1..Len(components) |-> <<upper(components[i][1]), fmt2(components[i][2])>>]

plot_components(components) ==
    [keys |-> [i \in 1..Len(components) |-> upper(components[i][1])],
     values |-> [i \in 1..Len(components) |-> components[i][2]]]

(***************************************************************************)
(* The messages of the submission handler.                                 *)
(***************************************************************************)
MSG_NO_KEY ==
    "U+274C API key not found. Please set OPENWEATHER_API_KEY in .streamlit/secrets.toml"
MSG_NO_CITY == "U+26A0 U+FE0F Please enter a city name."
MSG_CITY_NOT_FOUND ==
    "U+274C City not found. Try again with country code (e.g., Paris,FR)."
MSG_AQ_FAILED == "U+274C Failed to retrieve air quality data."

Error(text) == [kind |-> "error", text |-> text]
Warning(text) == [kind |-> "warning", text |-> text]
Exception == [kind |-> "exception", text |-> "uncaught"]

\* Faulty variant: the city tested without strip().
validate_no_strip(key, city) ==
    IF key = "" THEN "no_key"
    ELSE IF city = <<>> THEN "no_city"
    ELSE "ok"

\* The two checks that open the handler.
validate(key, city) ==
    IF key = "" THEN "no_key"
    ELSE IF strip(city) = <<>> THEN "no_city"
    ELSE "ok"

\* Faulty variant: the displayed (5-decimal) values passed on.
aq_args_rounded(c) == <<fmt5(c.lat) * 10, fmt5(c.lon) * 10>>

\* lat, lon = coords; fetch_air_quality(lat, lon)
aq_args(c) == <<c.lat, c.lon>>

\* if not coords: st.error(...); st.stop()
after_geocode(c) == IF ~Truthy(c) THEN "Error" ELSE "FetchingAQ"

\* Faulty variant: the st.stop() after the error is missing.
after_fetch_no_stop(a) == "Rendering"

\* if not aq: st.error(...); st.stop()
after_fetch(a) == IF ~Truthy(a) THEN "Error" ELSE "Rendering"

Init ==
    /\ API_KEY \in {"", "key"}
    /\ phase = "Idle"
    /\ city_input = <<>>
    /\ coords = None
    /\ aq = None
    /\ now = 0
    /\ geo_cache = {}
    /\ aq_cache = {}
    /\ calls = <<>>
    /\ sent = <<>>
    /\ ui = <<>>
    /\ geo_fetched = {}
    /\ aq_fetched = {}

\* The user presses "Check Air Quality": the script reruns with submitted = True.
Submit ==
    /\ phase = "Idle"
    /\ \E c \in CityInputs : city_input' = c
    /\ phase' = "Validating"
    /\ coords' = None
    /\ aq' = None
    /\ calls' = <<>>
    /\ sent' = <<>>
    /\ ui' = <<>>
    /\ UNCHANGED <<API_KEY, now, geo_cache, aq_cache, geo_fetched, aq_fetched>>

Validate ==
    /\ phase = "Validating"
    /\ LET v == validate(API_KEY, city_input) IN
       /\ ui' = CASE v = "no_key" -> Append(ui, Error(MSG_NO_KEY))
                  [] v = "no_city" -> Append(ui, Warning(MSG_NO_CITY))
                  [] OTHER -> ui
       /\ phase' = IF v = "ok" THEN "Geocoding" ELSE "Error"
    /\ UNCHANGED <<API_KEY, city_input, coords, aq, now, geo_cache, aq_cache,
                   calls, sent, geo_fetched, aq_fetched>>

Geocode ==
    /\ phase = "Geocoding"
    /\ \E resp \in GeoResponses :
         LET key == strip(city_input)
             c == cached(geo_cache, key, GEO_TTL, now, geocode_city(resp))
         IN  /\ calls' = Append(calls, [fn |-> "geocode_city", args |-> <<key>>])
             /\ sent' = IF c.outbound
                        THEN Append(sent, [url |-> "geo", args |-> <<key>>, resp |-> resp])
                        ELSE sent
             /\ geo_cache' = c.cache
             /\ geo_fetched' = IF c.outbound /\ ~c.result.raised
                               THEN record_fetch(geo_fetched, key, c.result.value, now)
                               ELSE geo_fetched
             /\ IF c.result.raised
                THEN /\ coords' = coords
                     /\ ui' = Append(ui, Exception)
                     /\ phase' = "Fault"
                ELSE /\ coords' = c.result.value
                     /\ phase' = after_geocode(c.result.value)
                     /\ ui' = IF after_geocode(c.result.value) = "Error"
                              THEN Append(ui, Error(MSG_CITY_NOT_FOUND))
                              ELSE Append(ui, [kind |-> "info",
                                               lat |-> fmt5(c.result.value.lat),
                                               lon |-> fmt5(c.result.value.lon)])
    /\ UNCHANGED <<API_KEY, city_input, aq, now, aq_cache, aq_fetched>>

FetchAQ ==
    /\ phase = "FetchingAQ"
    /\ \E resp \in AqResponses :
         LET key == aq_args(coords)
             c == cached(aq_cache, key, AQ_TTL, now, fetch_air_quality(resp))
         IN  /\ calls' = Append(calls, [fn |-> "fetch_air_quality", args |-> key])
             /\ sent' = IF c.outbound
                        THEN Append(sent, [url |-> "air", args |-> key, resp |-> resp])
                        ELSE sent
             /\ aq_cache' = c.cache
             /\ aq_fetched' = IF c.outbound /\ ~c.result.raised
                              THEN record_fetch(aq_fetched, key, c.result.value, now)
                              ELSE aq_fetched
             /\ IF c.result.raised
                THEN /\ aq' = aq
                     /\ ui' = Append(ui, Exception)
                     /\ phase' = "Fault"
                ELSE /\ aq' = c.result.value
                     /\ phase' = after_fetch(c.result.value)
                     /\ ui' = IF after_fetch(c.result.value) = "Error"
                              THEN Append(ui, Error(MSG_AQ_FAILED))
                              ELSE ui
    /\ UNCHANGED <<API_KEY, city_input, coords, now, geo_cache, geo_fetched>>

Render ==
    /\ phase = "Rendering"
    /\ ui' = ui \o
             << [kind |-> "metric", value |-> aq.aqi, delta |-> AQI_TEXT_get(aq.aqi)],
                [kind |-> "write", text |-> HEALTH_ADVICE_get(aq.aqi)],
                [kind |-> "table", data |-> table_data(aq.components)],
                [kind |-> "pyplot", fig |-> plot_components(aq.components)] >>
    /\ phase' = "Idle"
    /\ UNCHANGED <<API_KEY, city_input, coords, aq, now, geo_cache, aq_cache,
                   calls, sent, geo_fetched, aq_fetched>>

\* st.stop() after a reported error: the run ends and the form waits again.
Stop ==
    /\ phase = "Error"
    /\ phase' = "Idle"
    /\ UNCHANGED <<API_KEY, city_input, coords, aq, now, geo_cache, aq_cache,
                   calls, sent, ui, geo_fetched, aq_fetched>>

\* An exception no handler catches ends the run; the form waits again.
Abort ==
    /\ phase = "Fault"
    /\ phase' = "Idle"
    /\ UNCHANGED <<API_KEY, city_input, coords, aq, now, geo_cache, aq_cache,
                   calls, sent, ui, geo_fetched, aq_fetched>>

\* Time passes between submissions (one submission lasts at most two request
\* timeouts of 10 s, far less than a tick).
Tick ==
    /\ phase = "Idle"
    /\ now + TickSeconds <= MaxTime
    /\ now' = now + TickSeconds
    /\ UNCHANGED <<API_KEY, phase, city_input, coords, aq, geo_cache, aq_cache,
                   calls, sent, ui, geo_fetched, aq_fetched>>

Next ==
    \/ Submit
    \/ Validate
    \/ Geocode
    \/ FetchAQ
    \/ Render
    \/ Stop
    \/ Abort
    \/ Tick

Spec == Init /\ [][Next]_vars
(***************************************************************************)
(* The advisory lookups alone: a submission that reached Rendering with a  *)
(* reading whose aqi is any small integer or null.                         *)
(***************************************************************************)
AqiInputs == {JInt(n) : n \in (0 - AqiSpan)..AqiSpan} \cup {JNull}

ReadingOf(a) == [t |-> "dict", aqi |-> a, components |-> Components, dt |-> None]

ResponseOf(a) ==
    Json(JObject([list |-> <<[main |-> [aqi |-> a], components |-> Components]>>]))

InitAdvisory ==
    \E a \in AqiInputs :
        LET c == Tuple(25037519, 121563679) IN
        /\ API_KEY = "key"
        /\ phase = "Rendering"
        /\ city_input = Taipei
        /\ coords = c
        /\ aq = ReadingOf(a)
        /\ now = 0
        /\ geo_cache = {[key |-> Taipei, value |-> c, at |-> 0]}
        /\ aq_cache = {[key |-> aq_args(c), value |-> ReadingOf(a), at |-> 0]}
        /\ calls = << [fn |-> "geocode_city", args |-> <<Taipei>>],
                      [fn |-> "fetch_air_quality", args |-> aq_args(c)] >>
        /\ sent = << [url |-> "geo", args |-> <<Taipei>>,
                      resp |-> Json(JArray(<<[lat |-> c.lat, lon |-> c.lon]>>))],
                     [url |-> "air", args |-> aq_args(c), resp |-> ResponseOf(a)] >>
        /\ ui = << [kind |-> "info", lat |-> fmt5(c.lat), lon |-> fmt5(c.lon)] >>
        /\ geo_fetched = {[key |-> Taipei, value |-> c, at |-> 0]}
        /\ aq_fetched = {[key |-> aq_args(c), value |-> ReadingOf(a), at |-> 0]}

SpecAdvisory == InitAdvisory /\ [][Render]_vars

(***************************************************************************)
(* Vocabulary of the properties.                                           *)
(***************************************************************************)
HasUi(kind) == \E i \in 1..Len(ui) : ui[i].kind = kind
Called(fn) == \E i \in 1..Len(calls) : calls[i].fn = fn
SentTo(url) == \E i \in 1..Len(sent) : sent[i].url = url
Results == {"metric", "write", "table", "pyplot"}
Shown(kinds) == \E i \in 1..Len(ui) : ui[i].kind \in kinds
LastUi == ui[Len(ui)]

\* The last provider answer returned for key is younger than ttl.
Fresh(log, key, ttl) == \E e \in log : e.key = key /\ now - e.at < ttl
LastAnswer(log, key) == (CHOOSE e \in log : e.key = key).value

GeoKey == strip(city_input)
AqKey == <<coords.lat, coords.lon>>

\* C1: a transport failure or timeout of either outbound request ends the
\* submission with that step's error message ("city not found" for geocoding,
\* "failed to retrieve air quality data" for air quality), never with an
\* uncaught fault.
C1_TransportFailureIsReported ==
    \A i \in 1..Len(sent) :
        sent[i].resp = TransportFailure =>
            /\ phase \in {"Error", "Idle"}
            /\ ~HasUi("exception")
            /\ LastUi = Error(IF sent[i].url = "geo"
                              THEN MSG_CITY_NOT_FOUND ELSE MSG_AQ_FAILED)

\* C2: fetch_air_quality returns None, and raises nothing, for every provider
\* body without 'list', with an empty 'list', or whose first entry lacks
\* 'main', 'main.aqi' or 'components'.
Malformed(body) ==
    \/ body.t # "object"
    \/ "list" \notin DOMAIN body.v
    \/ body.v.list = <<>>
    \/ "main" \notin DOMAIN body.v.list[1]
    \/ "aqi" \notin DOMAIN body.v.list[1].main
    \/ "components" \notin DOMAIN body.v.list[1]

C2_MalformedIsUnavailable ==
    \A i \in 1..Len(sent) :
        (sent[i].url = "air" /\ sent[i].resp.kind = "json"
                             /\ Malformed(sent[i].resp.body)) =>
            /\ phase # "Fault"
            /\ ~HasUi("exception")
            /\ aq = None

\* C3: with no credential configured, or a city that is empty once trimmed,
\* the submission reports the error and calls neither client and sends no
\* request; it never gets past validation.
C3_NoCallOnInvalidSubmission ==
    (API_KEY = "" \/ strip(city_input) = <<>>) =>
        /\ calls = <<>>
        /\ sent = <<>>
        /\ phase \in {"Idle", "Validating", "Error"}
        /\ phase = "Error" =>
              ui = << IF API_KEY = "" THEN Error(MSG_NO_KEY)
                      ELSE Warning(MSG_NO_CITY) >>
        /\ phase = "Idle" =>
              ui \in { <<>>, << IF API_KEY = "" THEN Error(MSG_NO_KEY)
                                ELSE Warning(MSG_NO_CITY) >> }

C3_Witness ==
    /\ phase = "Error"
    /\ API_KEY # ""
    /\ city_input = <<" ", " ">>
    /\ ui = <<Warning(MSG_NO_CITY)>>
    /\ calls = <<>>
    /\ now > 0

\* C4: a failed step halts the pipeline: after geocoding returned None the
\* air-quality client is not invoked; after the air-quality client returned
\* None no metric, advice, table or chart is rendered; the air-quality client
\* runs only after geocoding returned coordinates and rendering only after a
\* reading was returned.
C4_FailureHaltsPipeline ==
    /\ Len(calls) <= 2
    /\ Len(calls) >= 1 => calls[1].fn = "geocode_city"
    /\ Len(calls) = 2 => calls[2].fn = "fetch_air_quality"
    /\ (Called("geocode_city") /\ ~Truthy(coords)) =>
           /\ ~Called("fetch_air_quality")
           /\ phase \in {"Error", "Fault", "Idle"}
    /\ (phase = "FetchingAQ" \/ Called("fetch_air_quality")) => Truthy(coords)
    /\ (Called("fetch_air_quality") /\ ~Truthy(aq)) =>
           /\ ~Shown(Results)
           /\ phase \in {"Error", "Fault", "Idle"}
    /\ (phase = "Rendering" \/ Shown(Results)) =>
           Called("fetch_air_quality") /\ Truthy(aq)

C4_Witness ==
    /\ phase = "Error"
    /\ SentTo("air")
    /\ aq = None
    /\ LastUi = Error(MSG_AQ_FAILED)
    /\ ~Shown(Results)

\* The table of section 4.3 of the specification.
SpecLabel ==
    [n \in 1..5 |->
        CASE n = 1 -> "Good"
          [] n = 2 -> "Fair"
          [] n = 3 -> "Moderate"
          [] n = 4 -> "Poor"
          [] n = 5 -> "Very Poor"]

SpecAdvice ==
    [n \in 1..5 |->
        CASE n = 1 -> "Air quality is good. Great for outdoor activities."
          [] n = 2 -> "Acceptable air quality. Minor precautions for sensitive groups."
          [] n = 3 -> "Moderate pollution. Consider reducing outdoor exertion."
          [] n = 4 -> "Unhealthy. Avoid outdoor activities and wear a mask."
          [] n = 5 -> "Very unhealthy. Stay indoors with air purification if possible."]

\* The emoji that opens each advice of the program.
AdviceEmoji ==
    [n \in 1..5 |->
        CASE n = 1 -> "U+2705"
          [] n = 2 -> "U+1F642"
          [] n = 3 -> "U+26A0 U+FE0F"
          [] n = 4 -> "U+1F6AB"
          [] n = 5 -> "U+2757"]

InTable(a) == a.t = "int" /\ a.v \in 1..5

\* What a finished rendering shows for the reading's aqi.
ShownLabel == (CHOOSE i \in 1..Len(ui) : ui[i].kind = "metric")
ShownAdvice == (CHOOSE i \in 1..Len(ui) : ui[i].kind = "write")

\* C5 (as stated): for aqi in 1..5 the label and the advice shown are exactly
\* the strings of the table of section 4.3, and for any other integer or an
\* absent value they are "Unknown" and "No advice available."; the lookups
\* never fail.
C5_LookupsMatchTable ==
    Shown(Results) =>
        /\ HasUi("metric") /\ HasUi("write")
        /\ ui[ShownLabel].value = aq.aqi
        /\ ui[ShownLabel].delta =
              IF InTable(aq.aqi) THEN SpecLabel[aq.aqi.v] ELSE "Unknown"
        /\ ui[ShownAdvice].text =
              IF InTable(aq.aqi) THEN SpecAdvice[aq.aqi.v] ELSE "No advice available."

\* C5 (amended): for aqi in 1..5 the label shown is exactly the label of the
\* table of section 4.3 and the advice shown is the table's sentence preceded
\* by that category's emoji and one space; for any other integer or an absent
\* value they are "Unknown" and "No advice available."; the lookups never fail.
C5_LookupsMatchCode ==
    Shown(Results) =>
        /\ HasUi("metric") /\ HasUi("write")
        /\ ui[ShownLabel].value = aq.aqi
        /\ ui[ShownLabel].delta =
              IF InTable(aq.aqi) THEN SpecLabel[aq.aqi.v] ELSE "Unknown"
        /\ ui[ShownAdvice].text =
              IF InTable(aq.aqi)
              THEN AdviceEmoji[aq.aqi.v] \o " " \o SpecAdvice[aq.aqi.v]
              ELSE "No advice available."

C5_Witness ==
    /\ phase = "Idle"
    /\ aq.t = "dict"
    /\ aq.aqi = JInt(5)
    /\ HasUi("metric")
    /\ ui[ShownLabel].delta = "Very Poor"
    /\ HasUi("write")

\* C6: a geocoding call for a query whose last provider answer was
\* coordinates, returned less than GEO_TTL seconds ago, returns those same
\* coordinates and sends no request: one outbound request serves both calls.
C6_GeocodeIdempotent ==
    [][ (/\ phase = "Geocoding"
         /\ Fresh(geo_fetched, GeoKey, GEO_TTL)
         /\ Truthy(LastAnswer(geo_fetched, GeoKey)))
        => /\ coords' = LastAnswer(geo_fetched, GeoKey)
           /\ sent' = sent
           /\ geo_fetched' = geo_fetched
           /\ phase' = "FetchingAQ" ]_vars

C6_Witness ==
    /\ phase = "FetchingAQ"
    /\ Called("geocode_city")
    /\ sent = <<>>
    /\ Truthy(coords)
    /\ \E e \in geo_fetched : e.key = GeoKey /\ e.value = coords /\ e.at < now

\* C7: the air-quality client is invoked, and its request sent, with exactly
\* the latitude and longitude geocoding returned, in that order, although the
\* coordinates shown are rounded to 5 decimals.
C7_ExactCoordinates ==
    /\ \A i \in 1..Len(calls) :
          calls[i].fn = "fetch_air_quality" =>
              /\ Truthy(coords)
              /\ calls[i].args = <<coords.lat, coords.lon>>
    /\ \A i \in 1..Len(sent) :
          sent[i].url = "air" => sent[i].args = <<coords.lat, coords.lon>>
    /\ Truthy(coords) =>
          /\ \E e \in geo_fetched : e.key = GeoKey /\ e.value = coords
          /\ ui[1].kind = "info"
          /\ ui[1].lat * 10 - coords.lat \in -5..5
          /\ ui[1].lon * 10 - coords.lon \in -5..5

C7_Witness ==
    /\ SentTo("air")
    /\ coords = Tuple(25037519, 121563679)
    /\ ui[1] = [kind |-> "info", lat |-> 2503752, lon |-> 12156368]

\* C8: a cached value expires by time only.  A call is answered from the
\* cache exactly when the key's last provider answer is younger than the
\* function's time-to-live (600 s for geocoding, 300 s for air quality);
\* otherwise it sends a new request.  The air-quality time-to-live is the
\* shorter one.
OneMoreSent(url) ==
    /\ Len(sent') = Len(sent) + 1
    /\ SubSeq(sent', 1, Len(sent)) = sent
    /\ sent'[Len(sent')].url = url

Lifecycle ==
    { <<"Idle", "Validating">>, <<"Validating", "Geocoding">>,
      <<"Geocoding", "FetchingAQ">>, <<"FetchingAQ", "Rendering">>,
      <<"Rendering", "Idle">>, <<"Validating", "Error">>,
      <<"Geocoding", "Error">>, <<"FetchingAQ", "Error">>, <<"Error", "Idle">> }

AtMostOnce(seq, field, x) == Cardinality({i \in 1..Len(seq) : seq[i][field] = x}) <= 1

C9_Lifecycle ==
    [][ /\ (phase' # phase => <<phase, phase'>> \in Lifecycle)
        /\ AtMostOnce(calls', "fn", "geocode_city")
        /\ AtMostOnce(calls', "fn", "fetch_air_quality")
        /\ AtMostOnce(sent', "url", "geo")
        /\ AtMostOnce(sent', "url", "air") ]_vars

\* C10: a failure is memoized like a success.  While a query's last provider
\* answer, None, is younger than GEO_TTL, a submission of that query reports
\* "city not found" without sending a request; while a coordinate pair's last
\* answer, None, is younger than AQ_TTL, a submission reaching it reports
\* "failed to retrieve air quality data" without sending a request.
C10_FailuresAreMemoized ==
    [][ /\ (/\ phase = "Geocoding"
            /\ Fresh(geo_fetched, GeoKey, GEO_TTL)
            /\ LastAnswer(geo_fetched, GeoKey) = None)
           => /\ sent' = sent
              /\ phase' = "Error"
              /\ ui' = Append(ui, Error(MSG_CITY_NOT_FOUND))
        /\ (/\ phase = "FetchingAQ"
            /\ Fresh(aq_fetched, AqKey, AQ_TTL)
            /\ LastAnswer(aq_fetched, AqKey) = None)
           => /\ sent' = sent
              /\ phase' = "Error"
              /\ ui' = Append(ui, Error(MSG_AQ_FAILED)) ]_vars

C10_Witness ==
    /\ phase = "Error"
    /\ Called("geocode_city")
    /\ sent = <<>>
    /\ ui = <<Error(MSG_CITY_NOT_FOUND)>>
    /\ \E e \in geo_fetched : e.key = GeoKey /\ e.value = None /\ e.at < now
====
